---- MODULE Spec2Model ----
(***************************************************************************)
(* Model of modules/tools/whl-mock/routing_request.py: a one-shot routing  *)
(* request publisher.  Two threads share the module-level globals: the    *)
(* main thread runs main() and the bus delivery thread runs               *)
(* localization_callback().  Each action is one statement (or one run of  *)
(* statements that touch no shared state) of one thread, so that every    *)
(* interleaving of the two threads at statement granularity is explored.  *)
(* Lengths and angles are fixed-point integers, 10000 units = 1.0.        *)
(***************************************************************************)
EXTENDS Integers, Sequences, FiniteSets, TLC

\* ---------------------------------------------------------------- bounds
MaxDeliveries == 3   \* localization messages the bus delivers in one run
MaxPose == 2         \* distinct poses the bus may deliver
MaxStamp == 3        \* extra fill_header calls made by the stamping harness

\* ------------------------------------------------- user configuration
\* Fixed point: Scale units are 1.0.
Scale == 10000
ORIGINAL_END_X == -38863
ORIGINAL_END_Y == 376126
ORIGINAL_END_HEADING == 14853
EXTEND_LENGTH == 26150

\* Python's None; a record, so that it compares unequal to every message
None == [none |-> TRUE]

\* ------------------------------------------------------------ geometry
\* Division rounding toward zero, so that -a / b = -(a / b).
Div(a, b) == IF a >= 0 THEN a \div b ELSE -((-a) \div b)

\* math.cos and math.sin as Taylor series in fixed point: each term is the
\* previous one times -h*h / (k*(k+1)).
RECURSIVE TaylorSum(_, _, _, _)
TaylorSum(term, h, k, n) ==
    IF n = 0 THEN term
    ELSE term + TaylorSum(-Div(Div(Div(term * h, Scale) * h, Scale), k * (k + 1)),
                          h, k + 2, n - 1)

TaylorTerms == 6
cos(h) == TaylorSum(Scale, h, 1, TaylorTerms)
sin(h) == TaylorSum(h, h, 2, TaylorTerms)

\* The offset with sine and cosine exchanged.
move_by_heading_swapped(x, y, heading, length) ==
    LET dx == Div(length * sin(heading), Scale)
        dy == Div(length * cos(heading), Scale)
    IN  <<x + dx, y + dy>>

\* lines 56-62
move_by_heading(x, y, heading, length) ==
    LET dx == Div(length * cos(heading), Scale)
        dy == Div(length * sin(heading), Scale)
        new_x == x + dx
        new_y == y + dy
    IN  <<new_x, new_y>>

END_X == move_by_heading(ORIGINAL_END_X, ORIGINAL_END_Y, ORIGINAL_END_HEADING, EXTEND_LENGTH)[1]
END_Y == move_by_heading(ORIGINAL_END_X, ORIGINAL_END_Y, ORIGINAL_END_HEADING, EXTEND_LENGTH)[2]

\* --------------------------------------------------------------- values
\* A LocalizationEstimate: pose.position.x, pose.position.y and pose.heading.
\* every delivered pose carries a heading, here 1.0 rad
PoseHeading == Scale
\* pose i is at (i, -i): its x and its y each identify it
Poses == {[x |-> i, y |-> -i, heading |-> PoseHeading] : i \in 1..MaxPose}

VARIABLES
    latest_localization_msg,  \* global, line 51
    global_sequence_num,      \* global, line 52
    routing_published,        \* global, line 53
    is_shutdown,              \* cyber.is_shutdown()
    pc,                       \* position of the main thread in main()
    start_pose,               \* local of create_and_publish_routing_request
    routing_request,          \* local of create_and_publish_routing_request
    ret,                      \* value create_and_publish_routing_request returns
    written,                  \* messages writer.write has accepted, in order
    cb_pc,                    \* position of the delivery thread in localization_callback
    cb_msg,                   \* argument of the running localization_callback
    delivered,                \* history: number of callbacks started
    lastCompleted,            \* history: msg of the callback that returned last
    stampLog,                 \* history: one entry per fill_header call
    writeCalls,               \* history: calls of writer.write (returned or raised)
    exitPath,                 \* history: how the try block was left
    stopAt,                   \* history: where main was when a stop signal arrived
    waited,                   \* history: a tick has found no pose and returned False
    cb_startPublished,        \* history: routing_published when the last callback started
    end_point,                \* module globals END_X, END_Y, lines 66-68
    geo_call                  \* history: arguments and result of a move_by_heading call

vars == <<latest_localization_msg, global_sequence_num, routing_published, is_shutdown,
          pc, start_pose, routing_request, ret, written, cb_pc, cb_msg,
          delivered, lastCompleted, stampLog, writeCalls, exitPath, stopAt,
          waited, cb_startPublished, end_point, geo_call>>

globals == <<latest_localization_msg, global_sequence_num, routing_published>>
locals == <<start_pose, routing_request, ret>>
cbvars == <<cb_pc, cb_msg, delivered, lastCompleted, cb_startPublished>>
history == <<stampLog, writeCalls, exitPath, stopAt>>
geom == <<end_point, geo_call>>
fixed == <<geom, waited>>

NoStop == [pc |-> "none", written |-> 0, kind |-> "none"]

Init ==
    /\ latest_localization_msg = None
    /\ global_sequence_num = 0
    /\ routing_published = FALSE
    /\ is_shutdown = FALSE
    /\ pc = "init"
    /\ start_pose = None
    /\ routing_request = None
    /\ ret = FALSE
    /\ written = <<>>
    /\ cb_pc = "idle"
    /\ cb_msg = None
    /\ delivered = 0
    /\ lastCompleted = None
    /\ stampLog = <<>>
    /\ writeCalls = 0
    /\ exitPath = "none"
    /\ stopAt = NoStop
    /\ waited = FALSE
    /\ cb_startPublished = FALSE
    /\ end_point = <<END_X, END_Y>>
    /\ geo_call = None

\* ------------------------------------------------ localization_callback
\* The bus invokes the callback on its delivery thread once the reader exists.
CallbackStart ==
    /\ cb_pc = "idle"
    /\ pc \notin {"init", "done"}
    /\ delivered < MaxDeliveries
    /\ \E msg \in Poses : cb_msg' = msg
    /\ cb_pc' = "check"
    /\ cb_startPublished' = routing_published
    /\ delivered' = delivered + 1
    /\ UNCHANGED <<fixed, globals, is_shutdown, pc, locals, written, lastCompleted, history>>

\* A callback without the test of routing_published.
CallbackCheckAlwaysStores ==
    /\ cb_pc = "check"
    /\ cb_pc' = "store"
    /\ UNCHANGED <<fixed, globals, is_shutdown, pc, locals, written, cb_msg, delivered,
                   lastCompleted, cb_startPublished, history>>

\* line 89-90: if routing_published: return
CallbackCheck ==
    /\ cb_pc = "check"
    /\ IF routing_published
       THEN /\ cb_pc' = "idle"
            /\ lastCompleted' = cb_msg
            /\ cb_msg' = None
            /\ UNCHANGED cb_startPublished
       ELSE /\ cb_pc' = "store"
            /\ UNCHANGED <<lastCompleted, cb_msg, cb_startPublished>>
    /\ UNCHANGED <<fixed, globals, is_shutdown, pc, locals, written, delivered, history>>

\* A first-write-wins cache: the store is skipped once a pose is held.
CallbackStoreFirstOnly ==
    /\ cb_pc = "store"
    /\ latest_localization_msg' =
            IF latest_localization_msg = None THEN cb_msg ELSE latest_localization_msg
    /\ lastCompleted' = cb_msg
    /\ cb_pc' = "idle"
    /\ cb_msg' = None
    /\ UNCHANGED cb_startPublished
    /\ UNCHANGED <<fixed, global_sequence_num, routing_published, is_shutdown, pc, locals,
                   written, delivered, history>>

\* A callback that marks the run as published when it stores the pose.
CallbackStoreMarksPublished ==
    /\ cb_pc = "store"
    /\ latest_localization_msg' = cb_msg
    /\ routing_published' = TRUE
    /\ lastCompleted' = cb_msg
    /\ cb_pc' = "idle"
    /\ cb_msg' = None
    /\ UNCHANGED <<fixed, global_sequence_num, is_shutdown, pc, locals, written, delivered,
                   cb_startPublished, history>>

\* line 92: latest_localization_msg = msg
CallbackStore ==
    /\ cb_pc = "store"
    /\ latest_localization_msg' = cb_msg
    /\ lastCompleted' = cb_msg
    /\ cb_pc' = "idle"
    /\ cb_msg' = None
    /\ UNCHANGED cb_startPublished
    /\ UNCHANGED <<fixed, global_sequence_num, routing_published, is_shutdown, pc, locals,
                   written, delivered, history>>

localization_callback == CallbackStart \/ CallbackCheck \/ CallbackStore

\* ---------------------------------------------------------- fill_header
\* hasattr(msg, "header"), line 103
HasHeader(msg) == "header" \in DOMAIN msg

\* A counter that is advanced twice per stamp.
NextSequenceNumSkip(n) == n + 2

\* line 107: global_sequence_num += 1
NextSequenceNum(n) == n + 1

\* lines 103-108.  stampLog receives the message as the call leaves it.
fill_header(msg) ==
    IF HasHeader(msg)
    THEN /\ global_sequence_num' = NextSequenceNum(global_sequence_num)
         /\ stampLog' = Append(stampLog, [msg EXCEPT !.header =
                [module_name |-> "routing_publisher",
                 sequence_num |-> global_sequence_num']])
    ELSE /\ UNCHANGED global_sequence_num
         /\ stampLog' = Append(stampLog, msg)

\* --------------------------------- create_and_publish_routing_request
EmptyRequest == [header |-> None, waypoint |-> <<>>]

\* The header is stamped before the None test.
CheckPoseStampFirst ==
    /\ pc = "cp_check"
    /\ fill_header(EmptyRequest)
    /\ IF latest_localization_msg = None
       THEN /\ ret' = FALSE
            /\ waited' = TRUE
            /\ pc' = "assign"
       ELSE /\ ret' = ret
            /\ waited' = waited
            /\ pc' = "cp_read"
    /\ UNCHANGED <<geom, latest_localization_msg, routing_published, is_shutdown, start_pose,
                   routing_request, written, cbvars, writeCalls, exitPath, stopAt>>

\* lines 122-124: the None test, which returns False
CheckPose ==
    /\ pc = "cp_check"
    /\ IF latest_localization_msg = None
       THEN /\ ret' = FALSE
            /\ waited' = TRUE
            /\ pc' = "assign"
       ELSE /\ ret' = ret
            /\ waited' = waited
            /\ pc' = "cp_read"
    /\ UNCHANGED <<geom, globals, is_shutdown, start_pose, routing_request, written,
                   cbvars, history>>

\* lines 127-128: start_pose = latest_localization_msg.pose, a reference to the
\* message the cache holds at this moment; start_position is its position
ReadPose ==
    /\ pc = "cp_read"
    /\ start_pose' = latest_localization_msg
    /\ pc' = "cp_header"
    /\ UNCHANGED <<fixed, globals, is_shutdown, routing_request, ret, written, cbvars, history>>

\* lines 131-132: routing_request = RoutingRequest(); fill_header(routing_request)
StampHeader ==
    /\ pc = "cp_header"
    /\ fill_header(EmptyRequest)
    /\ routing_request' = stampLog'[Len(stampLog')]
    /\ pc' = "cp_build"
    /\ UNCHANGED <<fixed, latest_localization_msg, routing_published, is_shutdown,
                   start_pose, ret, written, cbvars, writeCalls, exitPath, stopAt>>

\* A start waypoint that also copies the pose's heading.
StartWaypointWithHeading(position) ==
    [x |-> position.x, y |-> position.y, heading |-> position.heading]

\* A start waypoint whose y is read from the global again, not from the local.
StartWaypointTorn(position) ==
    [x |-> position.x, y |-> latest_localization_msg.y]

\* lines 135-137: the start waypoint; only x and y are set, so it has no heading
StartWaypoint(position) ==
    [x |-> position.x, y |-> position.y]

\* lines 140-143: the end waypoint
EndWaypoint(end_x, end_y, end_heading) ==
    [x |-> end_x, y |-> end_y, heading |-> end_heading]

\* lines 135-143
Waypoints(position, end_x, end_y, end_heading) ==
    <<StartWaypoint(position), EndWaypoint(end_x, end_y, end_heading)>>

\* A request built from the global as it is now, not from the local read at
\* line 127.
BuildRequestRereads ==
    /\ pc = "cp_build"
    /\ routing_request' = [routing_request EXCEPT !.waypoint =
            Waypoints(latest_localization_msg, end_point[1], end_point[2],
                      ORIGINAL_END_HEADING)]
    /\ pc' = "cp_write"
    /\ UNCHANGED <<fixed, globals, is_shutdown, start_pose, ret, written, cbvars, history>>

\* lines 135-143, with the arguments of line 181
BuildRequest ==
    /\ pc = "cp_build"
    /\ routing_request' = [routing_request EXCEPT !.waypoint =
            Waypoints(start_pose, end_point[1], end_point[2], ORIGINAL_END_HEADING)]
    /\ pc' = "cp_write"
    /\ UNCHANGED <<fixed, globals, is_shutdown, start_pose, ret, written, cbvars, history>>

\* line 146 returns, then line 152: return True
WriteReturns ==
    /\ pc = "cp_write"
    /\ written' = Append(written, routing_request)
    /\ writeCalls' = writeCalls + 1
    /\ ret' = TRUE
    /\ pc' = "assign"
    /\ UNCHANGED <<fixed, globals, is_shutdown, start_pose, routing_request, cbvars,
                   stampLog, exitPath, stopAt>>

\* A failed write that is swallowed and reported as False, so the loop goes on.
WriteRaisesRetry ==
    /\ pc = "cp_write"
    /\ writeCalls' = writeCalls + 1
    /\ exitPath' = "write_raised"
    /\ ret' = FALSE
    /\ pc' = "assign"
    /\ UNCHANGED <<fixed, globals, is_shutdown, start_pose, routing_request, written, cbvars,
                   stampLog, stopAt>>

\* line 146 raises: the exception leaves the function and the loop, line 195
WriteRaises ==
    /\ pc = "cp_write"
    /\ writeCalls' = writeCalls + 1
    /\ exitPath' = "write_raised"
    /\ pc' = "except_exc"
    /\ UNCHANGED <<fixed, globals, is_shutdown, locals, written, cbvars, stampLog, stopAt>>

create_and_publish_routing_request ==
    CheckPose \/ ReadPose \/ StampHeader \/ BuildRequest \/ WriteReturns \/ WriteRaises

\* ----------------------------------------------------------------- main
\* lines 162-176 complete
Setup ==
    /\ pc = "init"
    /\ pc' = "loop_check"
    /\ UNCHANGED <<fixed, globals, is_shutdown, locals, written, cbvars, history>>

\* lines 162-176 raise
SetupRaises ==
    /\ pc = "init"
    /\ exitPath' = "setup_raised"
    /\ pc' = "except_exc"
    /\ UNCHANGED <<fixed, globals, is_shutdown, locals, written, cbvars, stampLog, writeCalls, stopAt>>

\* A loop that does not test cyber.is_shutdown().
LoopCheckForever ==
    /\ pc = "loop_check"
    /\ pc' = "guard"
    /\ UNCHANGED <<fixed, globals, is_shutdown, locals, written, cbvars, history>>

\* line 178: while not cyber.is_shutdown()
LoopCheck ==
    /\ pc = "loop_check"
    /\ IF is_shutdown
       THEN /\ pc' = "finally"
            /\ exitPath' = "loop_exit"
       ELSE /\ pc' = "guard"
            /\ UNCHANGED exitPath
    /\ UNCHANGED <<fixed, globals, is_shutdown, locals, written, cbvars, stampLog, writeCalls, stopAt>>

\* line 179: if not routing_published, then the call of line 180
Guard ==
    /\ pc = "guard"
    /\ pc' = IF routing_published THEN "pub_check" ELSE "cp_check"
    /\ UNCHANGED <<fixed, globals, is_shutdown, locals, written, cbvars, stampLog,
                   writeCalls, exitPath, stopAt>>

\* An assignment that sets the flag whatever the call returned.
AssignAlwaysTrue ==
    /\ pc = "assign"
    /\ routing_published' = TRUE
    /\ pc' = "pub_check"
    /\ UNCHANGED <<fixed, latest_localization_msg, global_sequence_num, is_shutdown, locals,
                   written, cbvars, history>>

\* line 180: routing_published = <returned value>
Assign ==
    /\ pc = "assign"
    /\ routing_published' = ret
    /\ pc' = "pub_check"
    /\ UNCHANGED <<fixed, latest_localization_msg, global_sequence_num, is_shutdown, locals,
                   written, cbvars, history>>

\* A loop that does not shut the bus down after publishing.
PublishedCheckNoShutdown ==
    /\ pc = "pub_check"
    /\ pc' = "sleep"
    /\ UNCHANGED <<fixed, globals, is_shutdown, locals, written, cbvars, history>>

\* line 185: if routing_published
PublishedCheck ==
    /\ pc = "pub_check"
    /\ pc' = IF routing_published THEN "do_shutdown" ELSE "sleep"
    /\ UNCHANGED <<fixed, globals, is_shutdown, locals, written, cbvars, history>>

\* line 189: cyber.shutdown()
LoopShutdown ==
    /\ pc = "do_shutdown"
    /\ is_shutdown' = TRUE
    /\ pc' = "sleep"
    /\ UNCHANGED <<fixed, globals, locals, written, cbvars, history>>

\* line 191: time.sleep(sleep_time)
Sleep ==
    /\ pc = "sleep"
    /\ pc' = "loop_check"
    /\ UNCHANGED <<fixed, globals, is_shutdown, locals, written, cbvars, history>>

\* An except Exception handler placed inside the while loop: the loop goes on.
HandlerResumes ==
    /\ pc \in {"except_kb", "except_exc"}
    /\ pc' = IF pc = "except_exc" /\ exitPath = "write_raised" THEN "sleep" ELSE "finally"
    /\ UNCHANGED <<fixed, globals, is_shutdown, locals, written, cbvars, history>>

\* lines 193-196: the two handlers only log
Handler ==
    /\ pc \in {"except_kb", "except_exc"}
    /\ pc' = "finally"
    /\ UNCHANGED <<fixed, globals, is_shutdown, locals, written, cbvars, history>>

\* A finally block that only logs.
FinallyNoShutdown ==
    /\ pc = "finally"
    /\ pc' = "done"
    /\ UNCHANGED <<fixed, globals, is_shutdown, locals, written, cbvars, history>>

\* A finally block that also puts the run state back to its initial value.
FinallyResets ==
    /\ pc = "finally"
    /\ is_shutdown' = TRUE
    /\ routing_published' = FALSE
    /\ pc' = "done"
    /\ UNCHANGED <<fixed, latest_localization_msg, global_sequence_num, locals, written,
                   cbvars, history>>

\* lines 197-200: if not cyber.is_shutdown(): cyber.shutdown()
Finally ==
    /\ pc = "finally"
    /\ is_shutdown' = TRUE
    /\ pc' = "done"
    /\ UNCHANGED <<fixed, globals, locals, written, cbvars, history>>

\* ------------------------------------------------------- stop signals
TryBlock == {"init", "loop_check", "guard", "cp_check", "cp_read", "cp_header",
             "cp_build", "cp_write", "assign", "pub_check", "do_shutdown", "sleep"}

\* KeyboardInterrupt raised in the main thread inside the try block, line 193
Interrupt ==
    /\ pc \in TryBlock
    /\ pc' = "except_kb"
    /\ exitPath' = "interrupt"
    /\ stopAt' = IF stopAt = NoStop /\ ~routing_published
                 THEN [pc |-> pc, written |-> Len(written), kind |-> "interrupt"]
                 ELSE stopAt
    /\ UNCHANGED <<fixed, globals, is_shutdown, locals, written, cbvars, stampLog, writeCalls>>

\* the bus is shut down from outside: cyber.is_shutdown() turns True
BusShutdown ==
    /\ pc \in TryBlock \ {"init"}
    /\ ~is_shutdown
    /\ is_shutdown' = TRUE
    /\ stopAt' = IF stopAt = NoStop /\ ~routing_published
                 THEN [pc |-> pc, written |-> Len(written), kind |-> "bus"]
                 ELSE stopAt
    /\ UNCHANGED <<fixed, globals, pc, locals, written, cbvars, stampLog, writeCalls,
                   exitPath>>

main ==
    \/ Setup \/ SetupRaises \/ LoopCheck \/ Guard \/ Assign \/ PublishedCheck
    \/ LoopShutdown \/ Sleep \/ Handler \/ Finally
    \/ create_and_publish_routing_request

Next == main \/ localization_callback \/ Interrupt \/ BusShutdown

Spec == Init /\ [][Next]_vars

\* ------------------------------------------------- stamping harness
\* fill_header serves any message type: the harness has the main thread stamp
\* further messages, with and without a header, between its own statements.
OtherMessage == [payload |-> 0]

StampCall ==
    /\ pc \in TryBlock
    /\ Len(stampLog) < MaxStamp
    /\ \E msg \in {EmptyRequest, OtherMessage} : fill_header(msg)
    /\ UNCHANGED <<fixed, latest_localization_msg, routing_published, is_shutdown, pc, locals,
                   written, cbvars, writeCalls, exitPath, stopAt>>

NextStamp == main \/ localization_callback \/ StampCall

SpecStamp == Init /\ [][NextStamp]_vars

\* ------------------------------------------------- geometry harness
\* move_by_heading is called with arguments from these sets, at any moment of
\* the run; geo_call keeps the arguments and the result of the last call.
GeoOrigins == {<<0, 0>>, <<ORIGINAL_END_X, ORIGINAL_END_Y>>}
GeoHeadings == {0, 15708, ORIGINAL_END_HEADING, -ORIGINAL_END_HEADING}
GeoLengths == {0, Scale, EXTEND_LENGTH}

GeoArgs == {[x |-> o[1], y |-> o[2], heading |-> h, length |-> l] :
                o \in GeoOrigins, h \in GeoHeadings, l \in GeoLengths}

\* the value each call returns, computed once per argument record
GeoReturn == [a \in GeoArgs |-> move_by_heading(a.x, a.y, a.heading, a.length)]

GeomCall ==
    /\ pc # "done"
    /\ \E a \in GeoArgs : geo_call' = [args |-> a, result |-> GeoReturn[a]]
    /\ UNCHANGED <<end_point, waited, globals, is_shutdown, pc, locals, written, cbvars,
                   history>>

NextGeom == main \/ localization_callback \/ GeomCall

SpecGeom == Init /\ [][NextGeom]_vars

\* The main thread is always scheduled again: time.sleep returns and every
\* statement of main() completes.  Deliveries and stop signals are not forced.
FairSpec == Spec /\ WF_vars(main)

\* ================================================================ claims
\* positions of the main thread inside create_and_publish_routing_request,
\* up to the assignment of its result at line 180
InTick == {"cp_check", "cp_read", "cp_header", "cp_build", "cp_write", "assign"}

\* positions of the main thread after the try block has been left
Exiting == {"except_kb", "except_exc", "finally", "done"}

\* C1: writer.write is called at most once in the process lifetime, and once
\* routing_published is True the main thread is never again inside
\* create_and_publish_routing_request.
AtMostOnePublish ==
    /\ writeCalls <= 1
    /\ Len(written) <= 1
    /\ routing_published => pc \notin InTick

AtMostOnePublishWitness ==
    /\ routing_published
    /\ writeCalls = 1
    /\ Len(written) = 1
    /\ pc = "done"

\* C2: a run of create_and_publish_routing_request that finds
\* latest_localization_msg None returns False without calling writer.write or
\* stamping a header, and the assignment of its result leaves
\* routing_published False.
NoPrematurePublish ==
    [][/\ (pc = "cp_check" /\ latest_localization_msg = None /\ pc' # pc) =>
            /\ pc' \in {"assign", "except_kb"}
            /\ pc' = "assign" => ret' = FALSE
            /\ written' = written
            /\ writeCalls' = writeCalls
            /\ global_sequence_num' = global_sequence_num
            /\ stampLog' = stampLog
            /\ ~routing_published'
       /\ (pc = "assign" /\ ~ret /\ pc' # pc) =>
            /\ pc' \in {"pub_check", "except_kb"}
            /\ written' = written
            /\ global_sequence_num' = global_sequence_num
            /\ ~routing_published']_vars

NoPrematurePublishWitness ==
    /\ pc = "sleep"
    /\ latest_localization_msg = None
    /\ ~routing_published
    /\ global_sequence_num = 0
    /\ written = <<>>

\* C3: once writer.write has returned, no step changes latest_localization_msg.
PostPublishFreeze ==
    [][Len(written) >= 1 => latest_localization_msg' = latest_localization_msg]_vars

\* C4 as stated: after writer.write raised, the main loop keeps running.
WriteFailureRetried ==
    exitPath = "write_raised" => pc \in TryBlock

\* C4 as amended: after writer.write raised, routing_published is False, the
\* loop has been left for the shutdown path, nothing has been or will be
\* submitted, and the failed attempt has used sequence number 1.
WriteFailureFatal ==
    exitPath = "write_raised" =>
        /\ ~routing_published
        /\ pc \in Exiting
        /\ written = <<>>
        /\ writeCalls = 1
        /\ global_sequence_num = 1

WriteFailureFatalWitness ==
    /\ exitPath = "write_raised"
    /\ pc = "done"
    /\ is_shutdown

\* C5: the k-th call of fill_header on a message with a header assigns
\* sequence_num = k; global_sequence_num never decreases and changes only in a
\* step that is a fill_header call.
Stamped == SelectSeq(stampLog, HasHeader)

SequenceMonotonic ==
    /\ [](/\ \A k \in 1..Len(Stamped) : Stamped[k].header.sequence_num = k
          /\ global_sequence_num = Len(Stamped))
    /\ [][/\ global_sequence_num' >= global_sequence_num
          /\ global_sequence_num' # global_sequence_num =>
                Len(stampLog') = Len(stampLog) + 1]_vars

SequenceMonotonicWitness ==
    /\ Len(Stamped) >= 3
    /\ Len(stampLog) > Len(Stamped)
    /\ Len(written) = 1

\* C6 as stated: after a stop signal received while routing_published is
\* False, no routing request is submitted, and main ends with the bus shut down.
StopHaltsPublishing ==
    /\ stopAt # NoStop => Len(written) = stopAt.written
    /\ pc = "done" => is_shutdown

\* C6 as amended: after an interrupt, or after a bus shutdown that arrives
\* while the main thread is not between the loop test and writer.write, no
\* routing request is submitted; a bus shutdown that arrives between them lets
\* that iteration submit at most one; the bus flag stays down while main is
\* still in the try block, and main ends with the bus shut down.
MidIteration == {"guard", "cp_check", "cp_read", "cp_header", "cp_build", "cp_write"}

StopHaltsNextIteration ==
    /\ (stopAt # NoStop /\ (stopAt.kind = "interrupt" \/ stopAt.pc \notin MidIteration))
            => Len(written) = stopAt.written
    /\ stopAt # NoStop => Len(written) <= stopAt.written + 1
    /\ (stopAt.kind = "interrupt") => pc \in Exiting
    /\ (stopAt.kind = "bus" /\ pc \in TryBlock) => is_shutdown
    /\ pc = "done" => is_shutdown

StopHaltsNextIterationWitness ==
    /\ stopAt.kind = "bus"
    /\ stopAt.pc = "sleep"
    /\ latest_localization_msg # None
    /\ written = <<>>
    /\ exitPath = "loop_exit"
    /\ pc = "done"

\* C7: while routing_published is False the cache holds the pose of the
\* callback that completed last, and once a callback has completed the cache
\* is not None.
CacheFreshness ==
    /\ ~routing_published => latest_localization_msg = lastCompleted
    /\ lastCompleted # None => latest_localization_msg # None

CacheFreshnessWitness ==
    /\ ~routing_published
    /\ delivered = 2
    /\ cb_pc = "idle"
    /\ pc = "cp_header"
    /\ start_pose # latest_localization_msg
    /\ latest_localization_msg = lastCompleted

\* C8: every submitted request has exactly two waypoints: the first has the x
\* and y of the pose read from the cache and no heading, the second is
\* (END_X, END_Y, ORIGINAL_END_HEADING).
PublishedContent ==
    \A i \in 1..Len(written) :
        /\ Len(written[i].waypoint) = 2
        /\ start_pose \in Poses
        /\ DOMAIN written[i].waypoint[1] = {"x", "y"}
        /\ written[i].waypoint[1].x = start_pose.x
        /\ written[i].waypoint[1].y = start_pose.y
        /\ written[i].waypoint[2] =
                [x |-> END_X, y |-> END_Y, heading |-> ORIGINAL_END_HEADING]

PublishedContentWitness ==
    /\ Len(written) = 1
    /\ written[1].waypoint[1].x # written[1].waypoint[1].y
    /\ latest_localization_msg # start_pose

\* C9: once routing_published is True the main thread makes no further tick,
\* it is past cyber.shutdown() whenever it sleeps or tests the loop condition,
\* so that the test ends the loop, and main terminates.
ShutdownAfterPublish ==
    /\ [](routing_published =>
            /\ pc \notin InTick \cup {"guard"}
            /\ pc \in {"sleep", "loop_check"} => is_shutdown)
    /\ routing_published ~> (pc = "done")

ShutdownAfterPublishWitness ==
    /\ routing_published
    /\ exitPath = "loop_exit"
    /\ stopAt = NoStop
    /\ pc = "done"

\* C10: whenever main has terminated the bus is shut down.
BusReleased ==
    pc = "done" => is_shutdown

BusReleasedWitness ==
    /\ pc = "done"
    /\ exitPath = "interrupt"
    /\ stopAt.kind = "interrupt"
    /\ is_shutdown

\* C11: under fair scheduling of the main thread, a run in which a pose gets
\* cached, no stop signal arrives and no call raises ends with exactly one
\* routing request published, the bus shut down and main terminated.
Failed == exitPath \in {"setup_raised", "write_raised"}

OneShotLiveness ==
    ([](stopAt = NoStop /\ ~Failed) /\ <>(latest_localization_msg # None))
        => <>(/\ routing_published
              /\ Len(written) = 1
              /\ writeCalls = 1
              /\ is_shutdown
              /\ pc = "done")

OneShotLivenessWitness ==
    /\ pc = "done"
    /\ routing_published
    /\ Len(written) = 1
    /\ is_shutdown
    /\ stopAt = NoStop
    /\ ~Failed
    /\ waited
    /\ delivered >= 1

\* C12: routing_published starts False and no step sets it back from True to
\* False; the step from False to True is taken at most once, by the
\* assignment at line 180.
RunStateForward ==
    /\ ~routing_published
    /\ [][/\ routing_published => routing_published'
          /\ (~routing_published /\ routing_published') =>
                (pc = "assign" /\ ret /\ Len(written') = 1)]_vars

RunStateForwardWitness ==
    /\ routing_published
    /\ exitPath = "interrupt"
    /\ pc = "finally"

\* C13: a localization_callback invocation that starts while routing_published
\* is True never reaches the store at line 92, and the step with which it
\* returns leaves latest_localization_msg, global_sequence_num and
\* routing_published unchanged.
HandlerNoOpOncePublished ==
    /\ []((cb_pc # "idle" /\ cb_startPublished) => (cb_pc = "check" /\ routing_published))
    /\ [][(cb_pc # "idle" /\ cb_startPublished /\ cb_pc' # cb_pc) =>
            /\ cb_pc' = "idle"
            /\ latest_localization_msg' = latest_localization_msg
            /\ global_sequence_num' = global_sequence_num
            /\ routing_published' = routing_published]_vars

HandlerNoOpOncePublishedWitness ==
    /\ cb_pc = "idle"
    /\ cb_startPublished
    /\ routing_published
    /\ lastCompleted # None
    /\ lastCompleted # latest_localization_msg

\* C14: once an exception other than KeyboardInterrupt has been raised in the
\* try block, the main thread is on the shutdown path, no further tick runs,
\* nothing further is stamped or submitted, and main terminates with the bus
\* shut down.
UnexpectedFailureFatal ==
    /\ [](Failed => pc \in Exiting)
    /\ [][Failed => /\ written' = written
                    /\ writeCalls' = writeCalls
                    /\ stampLog' = stampLog
                    /\ routing_published' = routing_published]_vars
    /\ Failed ~> (pc = "done" /\ is_shutdown)

UnexpectedFailureFatalWitness ==
    /\ exitPath = "write_raised"
    /\ latest_localization_msg # start_pose
    /\ cb_pc = "idle"
    /\ writeCalls = 1
    /\ pc = "done"

\* C15: the x and y of the start waypoint of every request, built or
\* submitted, are the x and y of one single delivered pose.
OfOnePose(waypoint) ==
    \E p \in Poses : waypoint.x = p.x /\ waypoint.y = p.y

NoTornPoseRead ==
    /\ \A i \in 1..Len(written) : OfOnePose(written[i].waypoint[1])
    /\ pc = "cp_write" => OfOnePose(routing_request.waypoint[1])

NoTornPoseReadWitness ==
    /\ pc = "cp_write"
    /\ Len(routing_request.waypoint) = 2
    /\ latest_localization_msg # start_pose
    /\ cb_pc = "idle"

\* C16: move_by_heading(x, y, heading, length) returns
\* (x + length*cos(heading), y + length*sin(heading)): along heading 0 that is
\* (x + length, y), and the reversed heading gives the same x and the
\* mirrored y offset; a call
\* changes no state of the program; END_X, END_Y hold the offset of the
\* configured end point at every moment of the run.
GeoExpected ==
    [a \in GeoArgs |->
        <<a.x + Div(a.length * cos(a.heading), Scale),
          a.y + Div(a.length * sin(a.heading), Scale)>>]

GeoMirrored ==
    [a \in GeoArgs |-> move_by_heading(a.x, a.y, -a.heading, a.length)]

ConfiguredTarget ==
    <<ORIGINAL_END_X + Div(EXTEND_LENGTH * cos(ORIGINAL_END_HEADING), Scale),
      ORIGINAL_END_Y + Div(EXTEND_LENGTH * sin(ORIGINAL_END_HEADING), Scale)>>

GeometryOfTarget ==
    /\ [](geo_call # None =>
            /\ geo_call.result = GeoExpected[geo_call.args]
            /\ geo_call.args.heading = 0 =>
                    geo_call.result = <<geo_call.args.x + geo_call.args.length,
                                        geo_call.args.y>>
            /\ geo_call.result[1] = GeoMirrored[geo_call.args][1]
            /\ geo_call.result[2] - geo_call.args.y =
                    -(GeoMirrored[geo_call.args][2] - geo_call.args.y))
    /\ [](end_point = ConfiguredTarget)
    /\ [][end_point' = end_point]_vars
    /\ [][geo_call' # geo_call =>
            UNCHANGED <<globals, end_point, is_shutdown, pc, locals, written>>]_vars

GeometryOfTargetWitness ==
    /\ geo_call # None
    /\ geo_call.args.heading = ORIGINAL_END_HEADING
    /\ geo_call.args.length = EXTEND_LENGTH
    /\ geo_call.result = end_point
    /\ Len(written) = 1
    /\ written[1].waypoint[2].x = geo_call.result[1]
    /\ written[1].waypoint[2].y = geo_call.result[2]

\* C17: every submitted request carries header.sequence_num = 1, however many
\* ticks found no pose before it; such ticks leave global_sequence_num at 0.
PublishedSequenceOne ==
    /\ \A i \in 1..Len(written) : written[i].header.sequence_num = 1
    /\ (waited /\ start_pose = None) => global_sequence_num = 0

PublishedSequenceOneWitness ==
    /\ waited
    /\ Len(written) = 1
    /\ written[1].header.sequence_num = 1
    /\ global_sequence_num = 1
    /\ routing_published

\* C18: no step of localization_callback calls writer.write or changes
\* global_sequence_num, routing_published or the bus state; a message is
\* submitted only by the main thread at line 146.
CallbackOnlyStores ==
    [][/\ (cb_pc' # cb_pc) =>
            /\ written' = written
            /\ writeCalls' = writeCalls
            /\ global_sequence_num' = global_sequence_num
            /\ stampLog' = stampLog
            /\ routing_published' = routing_published
            /\ is_shutdown' = is_shutdown
            /\ pc' = pc
       /\ (written' # written \/ writeCalls' # writeCalls) =>
            (pc = "cp_write" /\ cb_pc' = cb_pc)]_vars

CallbackOnlyStoresWitness ==
    /\ cb_pc = "idle"
    /\ lastCompleted # None
    /\ latest_localization_msg = lastCompleted
    /\ written = <<>>
    /\ global_sequence_num = 0
    /\ ~routing_published
    /\ pc = "sleep"

\* C19: in every state in which routing_published is True exactly one message
\* has been written, global_sequence_num is at least 1 and
\* latest_localization_msg is not None.
PublishedFlagMatches ==
    routing_published =>
        /\ Len(written) = 1
        /\ writeCalls = 1
        /\ global_sequence_num >= 1
        /\ latest_localization_msg # None

PublishedFlagMatchesWitness ==
    /\ routing_published
    /\ pc = "pub_check"
    /\ Len(written) = 1
    /\ ~is_shutdown

\* C20: the tick takes as start pose the message stored by the callback that
\* completed last before the read at line 127, never changes it afterwards,
\* and the start waypoint of the request it builds and submits has that
\* message's x and y, whatever is delivered after the read.
FreshestPoseAtRead ==
    /\ [][(pc = "cp_read" /\ pc' = "cp_header") => (start_pose' = lastCompleted)]_vars
    /\ [][start_pose # None => (start_pose' = start_pose)]_vars
    /\ [](pc = "cp_write" =>
            /\ routing_request.waypoint[1].x = start_pose.x
            /\ routing_request.waypoint[1].y = start_pose.y)
    /\ [](\A i \in 1..Len(written) :
            /\ written[i].waypoint[1].x = start_pose.x
            /\ written[i].waypoint[1].y = start_pose.y)
    /\ [][(pc \in {"cp_write", "assign"}) => (routing_request' = routing_request)]_vars

FreshestPoseAtReadWitness ==
    /\ Len(written) = 1
    /\ start_pose # None
    /\ lastCompleted # start_pose
    /\ latest_localization_msg = lastCompleted
    /\ ~routing_published
    /\ pc = "assign"

====
